---- MODULE Spec2Model ----
(***************************************************************************)
(* AbstractProgressReporter of journal_transporter/progress/               *)
(* abstract_progress_reporter.py as a state machine.                       *)
(*                                                                         *)
(* Python values are represented as follows.                               *)
(*   numbers  : exact rationals <<n, d>> in lowest terms (d >= 1); the     *)
(*              integer k is <<k, 1>>.  Python's true division p / L is    *)
(*              TrueDiv.  None is the empty tuple.                         *)
(*   strings  : TLA+ strings; None is the reserved string NoneStr.         *)
(*   lengths  : integers; an optional length is <<>> (None) or <<L>>.      *)
(* The abstract hooks of the class (_update_interface, _new_progress_bar,  *)
(* _close_progress_bar, _print_message, _get_error_response) are the       *)
(* renderer: every call to one of them, and every call of the setters      *)
(* set_progress / set_message, is appended to `calls`, the calls made by   *)
(* the operation that produced the current state.                          *)
(***************************************************************************)
EXTENDS Integers, Sequences, FiniteSets, TLC

VARIABLES
    init_args,           \* the log / on_error tokens given to __init__
    debug_mode,          \* self.debug_mode
    verbose_mode,        \* self.verbose_mode
    log_debug,           \* self.log_debug
    log_error,           \* self.log_error
    log_file,            \* self.log_file
    on_error,            \* self.on_error
    progress,            \* self.progress
    message,             \* self.message
    progress_length,     \* self.progress_length
    has_subtask_length,  \* hasattr(self, "subtask_length")
    subtask_length,      \* self.subtask_length (meaningful when has_subtask_length)
    lastOp,              \* the call that produced this state, with its arguments
    calls,               \* renderer / setter calls made by lastOp, in order
    writes,              \* lines appended to the log file by lastOp, in order
    ret                  \* how lastOp ended: exception raised (or NoExc) and value returned

config == <<init_args, debug_mode, verbose_mode, log_debug, log_error, log_file, on_error>>

state == <<progress, message, progress_length, has_subtask_length, subtask_length>>

vars == <<init_args, debug_mode, verbose_mode, log_debug, log_error, log_file, on_error,
          progress, message, progress_length, has_subtask_length, subtask_length,
          lastOp, calls, writes, ret>>

----------------------------------------------------------------------------
(* Bounds of the model *)

\* lengths drawn for `length` are 0 and the multiples 5, 10, .. of 5
MaxLengthUnits == 2

\* progress values drawn for `progress` are None and 0, 3, 6, .. (multiples of 3)
MaxProgressUnits == 2

(* Program constants *)

\* default of `length` in update / major / minor, and the initial progress_length
DefaultLength == 100

\* default of `start` in __init__ and in _new_progress_bar
DefaultStart == 0

----------------------------------------------------------------------------
(* Python values *)

None == <<>>

NoneStr == "<None>"

NoExc == "<none>"

RECURSIVE GCD(_, _)
GCD(a, b) ==
    IF b = 0 THEN a ELSE GCD(b, a % b)

Num(k) == <<k, 1>>

\* the rational n / d (d > 0) in lowest terms
Norm(n, d) ==
    LET g == GCD(n, d) IN IF g = 0 THEN <<0, 1>> ELSE <<n \div g, d \div g>>

\* bool(x) of an optional number
TruthyNum(p) ==
    p # None /\ p[1] # 0

\* bool(s) of an optional string
TruthyStr(s) ==
    s # NoneStr /\ s # ""

\* bool(l) of an optional length
TruthyLen(l) ==
    l # None /\ l[1] # 0

\* a or b, on optional strings
OrStr(a, b) ==
    IF TruthyStr(a) THEN a ELSE b

\* p / L for a number p and a nonzero integer L
TrueDiv(p, L) ==
    Norm(p[1], p[2] * L)

\* a <= b on rationals
LeqNum(a, b) ==
    a[1] * b[2] <= b[1] * a[2]

----------------------------------------------------------------------------
(* Input domains *)

Lengths ==
    {0} \cup {5 * k : k \in 1..MaxLengthUnits}

ProgressArgs ==
    {None} \cup {Num(3 * k) : k \in 0..MaxProgressUnits}

MessageArgs ==
    {NoneStr, "Importing"}

DebugMessageArgs ==
    {NoneStr, "GET /journals"}

UpdateTypes ==
    {"MAJOR", "MINOR", "DETAIL", "DEBUG"}

LogTokens ==
    {"n", "none", "e", "error", "d", "debug", "verbose"}

ErrorTokens ==
    {"i", "interactive", "c", "continue", "a", "abort", "ignore"}

LogFiles ==
    {NoneStr, "transfer.log"}

\* the exceptions handed to report_error: a ServerResponseError, an exception
\* with a message, and an exception raised without arguments
\* error.response of an exception that carries no server response
NoResponse ==
    [status_code |-> "", reason |-> "", text |-> ""]

Errors ==
    { [cls |-> "ServerResponseError", args |-> <<"bad response">>,
       response |-> [status_code |-> "500", reason |-> "Internal Server Error", text |-> "oops"]],
      [cls |-> "Exception", args |-> <<"boom">>, response |-> NoResponse],
      [cls |-> "Exception", args |-> <<>>, response |-> NoResponse] }

\* placeholder in lastOp for calls that take no error
NoError ==
    [cls |-> NoneStr, args |-> <<>>, response |-> NoResponse]

Contexts ==
    {"{}", "{'record': 1}"}

\* what the user may answer to the prompt of _get_error_response
UserResponses ==
    {"continue", "retry"}

----------------------------------------------------------------------------
(* Records of the calls made on the renderer and on the setters *)

\* self._new_progress_bar(length, before_message, bar_init_message, start)
NewProgressBarCall(length, before_message, bar_init_message, start) ==
    [call |-> "_new_progress_bar", length |-> length, before_message |-> before_message,
     bar_init_message |-> bar_init_message, start |-> start]

\* self._close_progress_bar()
CloseProgressBarCall ==
    [call |-> "_close_progress_bar"]

\* self._print_message(message, error=..., fatal_error=...)
PrintMessageCall(text, error, fatal_error) ==
    [call |-> "_print_message", message |-> text, error |-> error, fatal_error |-> fatal_error]

\* self._update_interface(): the implementation renders self.progress and self.message
UpdateInterfaceCall(st) ==
    [call |-> "_update_interface", progress |-> st.progress, message |-> st.message]

\* self.set_progress(progress)
SetProgressCall(p) ==
    [call |-> "set_progress", progress |-> p]

\* self.set_message(message)
SetMessageCall(m) ==
    [call |-> "set_message", message |-> m]

\* self._get_error_response(error, context), which returned `response`
GetErrorResponseCall(error, context, response) ==
    [call |-> "_get_error_response", error |-> error, context |-> context, returns |-> response]

\* PrettyPrinter(indent=2).pprint(context): prints context on stdout, returns None
PPrintCall(context) ==
    [call |-> "pprint", context |-> context]

----------------------------------------------------------------------------
(* The ProgressState fields as one record, and the outcome of a code path *)

St ==
    [progress |-> progress, message |-> message, progress_length |-> progress_length,
     has_subtask_length |-> has_subtask_length, subtask_length |-> subtask_length]

\* a code path ends with the fields st, having made the calls cs and the log
\* writes ws, and having raised exc (NoExc when it ran to its end)
Outcome(st, cs, ws, exc) ==
    [st |-> st, calls |-> cs, writes |-> ws, raised |-> exc]

\* self._now(): the clock is not modelled; every timestamp is this text
Now ==
    "2022-01-01T00:00:00"

\* f"{self._now()} -- {message}"
Stamped(text) ==
    Now \o " -- " \o text

\* set_progress: self.progress = progress
set_progress(st, p) ==
    [st EXCEPT !.progress = p]

\* set_message: self.message = message
set_message(st, m) ==
    [st EXCEPT !.message = m]

----------------------------------------------------------------------------
(* update, branch by branch *)

\* mutation of handle_debug: the line is printed whether or not there is a message
handle_debug_unguarded(text) ==
    IF debug_mode
    THEN <<PrintMessageCall(Stamped(text), FALSE, FALSE)>>
    ELSE <<>>

\* _handle_debug(message, update_type): one timestamped line, if there is a message
handle_debug(text) ==
    IF debug_mode /\ TruthyStr(text)
    THEN <<PrintMessageCall(Stamped(text), FALSE, FALSE)>>
    ELSE <<>>

\* __write_to_log(message): what is appended and what is raised; io_ok tells
\* whether open(self.log_file, "a") and log.write succeed
write_to_log(text, io_ok) ==
    IF TruthyStr(log_file) /\ TruthyStr(text)
    THEN IF io_ok
         THEN [writes |-> <<Stamped(text) \o "\n">>, raised |-> NoExc]
         ELSE [writes |-> <<>>, raised |-> "OSError"]
    ELSE [writes |-> <<>>, raised |-> NoExc]

\* __log_debug(message)
log_debug_message(text, io_ok) ==
    IF log_debug
    THEN write_to_log(text, io_ok)
    ELSE [writes |-> <<>>, raised |-> NoExc]

\* mutation of update_major: subtask_length is not reset
update_major_keeping_subtask(st, p, m, length) ==
    IF verbose_mode
    THEN Outcome(st, <<PrintMessageCall(m, FALSE, FALSE)>>, <<>>, NoExc)
    ELSE LET st1 == [st EXCEPT !.message = m, !.progress_length = length]
         IN  Outcome(st1, <<NewProgressBarCall(length, m, p, Num(DefaultStart))>>, <<>>, NoExc)

\* mutation of update_major: the new bar starts the progress over
update_major_resetting_progress(st, p, m, length) ==
    IF verbose_mode
    THEN Outcome(st, <<PrintMessageCall(m, FALSE, FALSE)>>, <<>>, NoExc)
    ELSE LET st1 == [st EXCEPT !.has_subtask_length = TRUE,
                               !.subtask_length = None,
                               !.message = m,
                               !.progress_length = length,
                               !.progress = Num(DefaultStart)]
         IN  Outcome(st1, <<NewProgressBarCall(length, m, p, Num(DefaultStart))>>, <<>>, NoExc)

\* update, MAJOR branch (lines 110-119)
update_major(st, p, m, length) ==
    IF verbose_mode
    THEN Outcome(st, <<PrintMessageCall(m, FALSE, FALSE)>>, <<>>, NoExc)
    ELSE LET st1 == [st EXCEPT !.has_subtask_length = TRUE,
                               !.subtask_length = None,
                               !.message = m,
                               !.progress_length = length]
         IN  Outcome(st1, <<NewProgressBarCall(length, m, p, Num(DefaultStart))>>, <<>>, NoExc)

\* mutation of update_minor: the verbose branch also records the subtask length
update_minor_recording_subtask(st, p, m, length) ==
    IF verbose_mode
    THEN LET st1 == [st EXCEPT !.progress_length = length, !.message = m,
                               !.has_subtask_length = TRUE, !.subtask_length = <<length>>]
         IN  Outcome(st1, <<NewProgressBarCall(length, m, None, Num(DefaultStart))>>, <<>>, NoExc)
    ELSE LET st1 == [st EXCEPT !.has_subtask_length = TRUE, !.subtask_length = <<length>>]
             st2 == IF TruthyNum(p) THEN set_progress(st1, p) ELSE st1
             cs2 == IF TruthyNum(p) THEN <<SetProgressCall(p)>> ELSE <<>>
             st3 == IF TruthyStr(m) THEN set_message([st2 EXCEPT !.message = m], m) ELSE st2
             cs3 == IF TruthyStr(m) THEN <<SetMessageCall(m)>> ELSE <<>>
         IN  Outcome(st3, cs2 \o cs3 \o <<UpdateInterfaceCall(st3)>>, <<>>, NoExc)

\* update, MINOR branch (lines 120-134)
update_minor(st, p, m, length) ==
    IF verbose_mode
    THEN LET st1 == [st EXCEPT !.progress_length = length, !.message = m]
         IN  Outcome(st1, <<NewProgressBarCall(length, m, None, Num(DefaultStart))>>, <<>>, NoExc)
    ELSE LET st1 == [st EXCEPT !.has_subtask_length = TRUE, !.subtask_length = <<length>>]
             st2 == IF TruthyNum(p) THEN set_progress(st1, p) ELSE st1
             cs2 == IF TruthyNum(p) THEN <<SetProgressCall(p)>> ELSE <<>>
             st3 == IF TruthyStr(m) THEN set_message([st2 EXCEPT !.message = m], m) ELSE st2
             cs3 == IF TruthyStr(m) THEN <<SetMessageCall(m)>> ELSE <<>>
         IN  Outcome(st3, cs2 \o cs3 \o <<UpdateInterfaceCall(st3)>>, <<>>, NoExc)

\* mutation of weighted_progress: the progress is never divided
weighted_progress_undivided(st, p) ==
    [raised |-> NoExc, value |-> p]

\* progress / self.subtask_length (line 138) on an integer length L: the
\* TypeError of None / int, the ZeroDivisionError of a zero divisor, or the quotient
divide(p, L) ==
    IF p = None
    THEN [raised |-> "TypeError", value |-> None]
    ELSE IF L = 0
         THEN [raised |-> "ZeroDivisionError", value |-> None]
         ELSE [raised |-> NoExc, value |-> TrueDiv(p, L)]

\* mutation of weighted_progress: the guard tests `is not None`, so a length of 0
\* is divided by
weighted_progress_dividing_by_zero(st, p) ==
    IF st.has_subtask_length /\ st.subtask_length # None
    THEN divide(p, st.subtask_length[1])
    ELSE [raised |-> NoExc, value |-> p]

\* update, DETAIL branch, lines 137-140: the value of weighted_progress, or the
\* exception of the division
weighted_progress(st, p) ==
    IF st.has_subtask_length /\ TruthyLen(st.subtask_length)
    THEN divide(p, st.subtask_length[1])
    ELSE [raised |-> NoExc, value |-> p]

\* mutation of update_detail: a progress of 0 is applied (`if progress is not None`)
update_detail_applying_zero(st, p, m) ==
    LET w == weighted_progress(st, p)
    IN  IF w.raised # NoExc
        THEN Outcome(st, <<>>, <<>>, w.raised)
        ELSE LET st2 == IF p # None THEN set_progress(st, w.value) ELSE st
                 cs2 == IF p # None THEN <<SetProgressCall(w.value)>> ELSE <<>>
                 st3 == IF TruthyStr(m) /\ verbose_mode
                        THEN set_message([st2 EXCEPT !.message = m], m) ELSE st2
                 cs3 == IF TruthyStr(m) /\ verbose_mode THEN <<SetMessageCall(m)>> ELSE <<>>
             IN  Outcome(st3, cs2 \o cs3 \o <<UpdateInterfaceCall(st3)>>, <<>>, NoExc)

\* mutation of update_detail: the message is set whatever the verbose setting
update_detail_setting_message(st, p, m) ==
    LET w == weighted_progress(st, p)
    IN  IF w.raised # NoExc
        THEN Outcome(st, <<>>, <<>>, w.raised)
        ELSE LET st2 == IF TruthyNum(p) THEN set_progress(st, w.value) ELSE st
                 cs2 == IF TruthyNum(p) THEN <<SetProgressCall(w.value)>> ELSE <<>>
                 st3 == IF TruthyStr(m)
                        THEN set_message([st2 EXCEPT !.message = m], m) ELSE st2
                 cs3 == IF TruthyStr(m) THEN <<SetMessageCall(m)>> ELSE <<>>
             IN  Outcome(st3, cs2 \o cs3 \o <<UpdateInterfaceCall(st3)>>, <<>>, NoExc)

\* update, DETAIL branch (lines 135-147)
update_detail(st, p, m) ==
    LET w == weighted_progress(st, p)
    IN  IF w.raised # NoExc
        THEN Outcome(st, <<>>, <<>>, w.raised)
        ELSE LET st2 == IF TruthyNum(p) THEN set_progress(st, w.value) ELSE st
                 cs2 == IF TruthyNum(p) THEN <<SetProgressCall(w.value)>> ELSE <<>>
                 st3 == IF TruthyStr(m) /\ verbose_mode
                        THEN set_message([st2 EXCEPT !.message = m], m) ELSE st2
                 cs3 == IF TruthyStr(m) /\ verbose_mode THEN <<SetMessageCall(m)>> ELSE <<>>
             IN  Outcome(st3, cs2 \o cs3 \o <<UpdateInterfaceCall(st3)>>, <<>>, NoExc)

\* update, lines 109-147: the branches taken when debug mode is off
update_render(st, update_type, p, m, length) ==
    CASE update_type = "MAJOR"  -> update_major(st, p, m, length)
      [] update_type = "MINOR"  -> update_minor(st, p, m, length)
      [] update_type = "DETAIL" -> update_detail(st, p, m)
      [] OTHER                  -> Outcome(st, <<>>, <<>>, NoExc)

\* update, lines 149-150: the debug log entry written after the rendering
update_log(out, m, debug_message, io_ok) ==
    IF out.raised # NoExc
    THEN out
    ELSE LET w == IF log_debug
                  THEN log_debug_message(OrStr(debug_message, m), io_ok)
                  ELSE [writes |-> <<>>, raised |-> NoExc]
         IN  Outcome(out.st, out.calls, w.writes, w.raised)

\* mutation of update: debug mode prints and then goes on to the rendering branches
update_rendering_in_debug_mode(st, update_type, p, m, length, debug_message, io_ok) ==
    LET out == update_log(update_render(st, update_type, p, m, length), m, debug_message, io_ok)
    IN  Outcome(out.st, handle_debug(OrStr(debug_message, m)) \o out.calls, out.writes,
                out.raised)

\* mutation of update: debug mode prints and then falls through to the debug log
update_logging_in_debug_mode(st, update_type, p, m, length, debug_message, io_ok) ==
    IF debug_mode
    THEN update_log(Outcome(st, handle_debug(OrStr(debug_message, m)), <<>>, NoExc),
                    m, debug_message, io_ok)
    ELSE update_log(update_render(st, update_type, p, m, length), m, debug_message, io_ok)

\* update(update_type, progress, message, length, debug_message)
update(st, update_type, p, m, length, debug_message, io_ok) ==
    IF debug_mode
    THEN Outcome(st, handle_debug(OrStr(debug_message, m)), <<>>, NoExc)
    ELSE update_log(update_render(st, update_type, p, m, length), m, debug_message, io_ok)

----------------------------------------------------------------------------
(* report_error and error *)

\* __error_info(error): the text, or the IndexError of error.args[0] on an
\* exception without arguments
error_info(error) ==
    IF error.cls = "ServerResponseError"
    THEN [raised |-> NoExc,
          value |-> "Server returned an error response:" \o "Status "
                    \o error.response.status_code \o " - " \o error.response.reason
                    \o error.response.text]
    ELSE IF Len(error.args) = 0
         THEN [raised |-> "IndexError", value |-> NoneStr]
         ELSE [raised |-> NoExc, value |-> error.args[1]]

\* __log_error(error, context): pprint returns None, so the context part of the
\* logged text is str(None)
log_error_message(error, context, io_ok) ==
    IF log_error
    THEN LET info == error_info(error)
         IN  IF info.raised # NoExc
             THEN [calls |-> <<>>, writes |-> <<>>, raised |-> info.raised]
             ELSE LET w == write_to_log(info.value \o "\n" \o "None", io_ok)
                  IN  [calls |-> <<PPrintCall(context)>>, writes |-> w.writes,
                       raised |-> w.raised]
    ELSE [calls |-> <<>>, writes |-> <<>>, raised |-> NoExc]

\* report_error, lines 220-225: the response and the prompt made to get it
error_response(error, context, user_response) ==
    IF on_error \in {"c", "continue"}
    THEN [calls |-> <<>>, value |-> "continue"]
    ELSE IF on_error \in {"a", "abort"}
         THEN [calls |-> <<>>, value |-> "abort"]
         ELSE [calls |-> <<GetErrorResponseCall(error, context, user_response)>>,
               value |-> user_response]

\* report_error(error, context): calls, log writes, exception and return value
report_error_outcome(error, context, user_response, io_ok) ==
    LET r == error_response(error, context, user_response)
        l == log_error_message(error, context, io_ok)
    IN  [calls |-> r.calls \o l.calls, writes |-> l.writes, raised |-> l.raised,
         value |-> IF l.raised = NoExc THEN r.value ELSE NoneStr]

\* mutation of error_calls: the message is printed without closing the bar first
error_calls_without_close(m, fatal) ==
    <<PrintMessageCall(m, TRUE, fatal)>>

\* error(message, fatal): the calls made
error_calls(m, fatal) ==
    <<CloseProgressBarCall, PrintMessageCall(m, TRUE, fatal)>>

----------------------------------------------------------------------------
(* Actions *)

Op(via, update_type, p, m, length, debug_message, error, context, fatal) ==
    [via |-> via, update_type |-> update_type, progress |-> p, message |-> m,
     length |-> length, debug_message |-> debug_message, error |-> error,
     context |-> context, fatal |-> fatal]

\* the fields, calls, writes and result of an update call become the next state
Finish(op, out) ==
    /\ progress' = out.st.progress
    /\ message' = out.st.message
    /\ progress_length' = out.st.progress_length
    /\ has_subtask_length' = out.st.has_subtask_length
    /\ subtask_length' = out.st.subtask_length
    /\ lastOp' = op
    /\ calls' = out.calls
    /\ writes' = out.writes
    /\ ret' = [raised |-> out.raised, value |-> NoneStr]
    /\ UNCHANGED config

\* whether opening and appending to the log file succeeds is up to the file
\* system; without a log file nothing is opened
IoOutcomes ==
    IF TruthyStr(log_file) THEN BOOLEAN ELSE {TRUE}

\* update(update_type, progress, message, length, debug_message) called directly,
\* with arguments drawn from the given sets; length is read by MAJOR and MINOR
\* only and progress by MAJOR, MINOR and DETAIL only, so the others get defaults
UpdateOn(Types, Ps, Ms, Ls, Ds) ==
    \E update_type \in Types, m \in Ms, debug_message \in Ds, io_ok \in IoOutcomes :
        \E p \in (IF update_type = "DEBUG" THEN {None} ELSE Ps),
           length \in (IF update_type \in {"MAJOR", "MINOR"} THEN Ls ELSE {DefaultLength}) :
            Finish(Op("update", update_type, p, m, length, debug_message, NoError, NoneStr, FALSE),
                   update(St, update_type, p, m, length, debug_message, io_ok))

\* major(message, length, debug_message):
\* update(MAJOR, message=message, debug_message=debug_message, length=length)
majorOn(Ms, Ls, Ds) ==
    \E m \in Ms, length \in Ls, debug_message \in Ds, io_ok \in IoOutcomes :
        Finish(Op("major", "MAJOR", None, m, length, debug_message, NoError, NoneStr, FALSE),
               update(St, "MAJOR", None, m, length, debug_message, io_ok))

\* mutation of minorOn: minor does not forward its length, update takes its default
minorOn_dropping_length(Ps, Ms, Ls, Ds) ==
    \E p \in Ps, m \in Ms, length \in Ls, debug_message \in Ds, io_ok \in IoOutcomes :
        Finish(Op("minor", "MINOR", p, m, length, debug_message, NoError, NoneStr, FALSE),
               update(St, "MINOR", p, m, DefaultLength, debug_message, io_ok))

\* minor(progress, message, length, debug_message):
\* update(MINOR, progress=progress, message=message, length=length, debug_message=...)
minorOn(Ps, Ms, Ls, Ds) ==
    \E p \in Ps, m \in Ms, length \in Ls, debug_message \in Ds, io_ok \in IoOutcomes :
        Finish(Op("minor", "MINOR", p, m, length, debug_message, NoError, NoneStr, FALSE),
               update(St, "MINOR", p, m, length, debug_message, io_ok))

\* detail(progress, message, debug_message):
\* update(DETAIL, progress=progress, message=message, debug_message=debug_message)
detailOn(Ps, Ms, Ds) ==
    \E p \in Ps, m \in Ms, debug_message \in Ds, io_ok \in IoOutcomes :
        Finish(Op("detail", "DETAIL", p, m, DefaultLength, debug_message, NoError, NoneStr, FALSE),
               update(St, "DETAIL", p, m, DefaultLength, debug_message, io_ok))

\* debug(message): update(DEBUG, debug_message=message)
debugOn(Ds) ==
    \E m \in Ds, io_ok \in IoOutcomes :
        Finish(Op("debug", "DEBUG", None, NoneStr, DefaultLength, m, NoError, NoneStr, FALSE),
               update(St, "DEBUG", None, NoneStr, DefaultLength, m, io_ok))

Update ==
    UpdateOn(UpdateTypes, ProgressArgs, MessageArgs, Lengths, DebugMessageArgs)

major ==
    majorOn(MessageArgs, Lengths, DebugMessageArgs)

minor ==
    minorOn(ProgressArgs, MessageArgs, Lengths, DebugMessageArgs)

detail ==
    detailOn(ProgressArgs, MessageArgs, DebugMessageArgs)

debug ==
    debugOn(DebugMessageArgs)

\* report_error(error, context)
report_error ==
    \E error \in Errors, context \in Contexts, user_response \in UserResponses,
       io_ok \in IoOutcomes :
        LET out == report_error_outcome(error, context, user_response, io_ok)
        IN  /\ lastOp' = Op("report_error", NoneStr, None, NoneStr, DefaultLength, NoneStr,
                            error, context, FALSE)
            /\ calls' = out.calls
            /\ writes' = out.writes
            /\ ret' = [raised |-> out.raised, value |-> out.value]
            /\ UNCHANGED <<config, state>>

\* error(message, fatal)
error ==
    \E m \in MessageArgs \ {NoneStr}, fatal \in BOOLEAN :
        /\ lastOp' = Op("error", NoneStr, None, m, DefaultLength, NoneStr, NoError, NoneStr, fatal)
        /\ calls' = error_calls(m, fatal)
        /\ writes' = <<>>
        /\ ret' = [raised |-> NoExc, value |-> NoneStr]
        /\ UNCHANGED <<config, state>>

----------------------------------------------------------------------------
(* Construction and specifications *)

\* __init__(interface, init_message=None, start=0, verbose, debug, log, on_error);
\* log_file is None after __init__ and is assigned by the owner of the reporter
\* when needs_log_file
InitWith(Debugs, Verboses, Logs, OnErrors) ==
    /\ debug_mode \in Debugs
    /\ verbose_mode \in Verboses
    /\ \E log \in Logs, on_err \in OnErrors :
        /\ init_args = [log |-> log, on_error |-> on_err]
        /\ log_debug = (log \in {"d", "debug"})
        /\ log_error = (log \in {"e", "error"})
        /\ on_error = on_err
    /\ log_file \in (IF log_debug \/ log_error THEN LogFiles ELSE {NoneStr})
    /\ progress = Num(DefaultStart)
    /\ message = NoneStr
    /\ progress_length = DefaultLength
    /\ has_subtask_length = FALSE
    /\ subtask_length = None
    /\ lastOp = Op("__init__", NoneStr, None, NoneStr, DefaultLength, NoneStr, NoError,
                   NoneStr, FALSE)
    /\ calls = <<>>
    /\ writes = <<>>
    /\ ret = [raised |-> NoExc, value |-> NoneStr]

\* the reporter as the transfer handler drives it: every display mode, no log,
\* interactive error handling
Init ==
    InitWith(BOOLEAN, BOOLEAN, {"n"}, {"i"})

Next ==
    \/ Update
    \/ major
    \/ minor
    \/ detail
    \/ debug
    \/ report_error
    \/ error

Spec ==
    Init /\ [][Next]_vars

\* every configuration: every display mode, every log and on_error token, with
\* and without a log file; the updates carry one progress value and one length
ConfigInit ==
    InitWith(BOOLEAN, BOOLEAN, LogTokens, ErrorTokens)

ConfigUpdate ==
    UpdateOn(UpdateTypes, {None, Num(3)}, MessageArgs, {5}, DebugMessageArgs)

ConfigNext ==
    \/ ConfigUpdate
    \/ report_error
    \/ error

ConfigSpec ==
    ConfigInit /\ [][ConfigNext]_vars

\* the shortcuts beside update: every display mode, log mode none, error and
\* debug, with and without a log file; one progress value and one length
ShortcutInit ==
    InitWith(BOOLEAN, BOOLEAN, {"n", "e", "d"}, {"i"})

ShortcutMajor ==
    majorOn(MessageArgs, {5}, DebugMessageArgs)

ShortcutMinor ==
    minorOn({None, Num(3)}, MessageArgs, {5}, DebugMessageArgs)

ShortcutDetail ==
    detailOn({None, Num(3)}, MessageArgs, DebugMessageArgs)

ShortcutNext ==
    \/ ConfigUpdate
    \/ ShortcutMajor
    \/ ShortcutMinor
    \/ ShortcutDetail
    \/ debug

ShortcutSpec ==
    ShortcutInit /\ [][ShortcutNext]_vars

----------------------------------------------------------------------------
(* Properties *)

\* the calls to update and to its shortcuts
UpdateVias ==
    {"update", "major", "minor", "detail", "debug"}

\* the number of calls named `name` among the calls cs
RECURSIVE CountCalls(_, _)
CountCalls(cs, name) ==
    IF cs = <<>> THEN 0
    ELSE (IF Head(cs).call = name THEN 1 ELSE 0) + CountCalls(Tail(cs), name)

\* the subtask_length attribute is absent: never assigned, or None
SubtaskAbsent ==
    ~has_subtask_length \/ subtask_length = None

\* C1: in non-verbose, non-debug mode, after any major, minor or detail call the
\* progress handed to every _update_interface call is at most progress_length.
C1_RenderedProgressWithinBar ==
    (~debug_mode /\ ~verbose_mode /\ lastOp.via \in {"major", "minor", "detail"})
        => \A i \in 1..Len(calls) :
               calls[i].call = "_update_interface"
                   => LeqNum(calls[i].progress, Num(progress_length))

\* C2: weighting law, non-verbose, non-debug: a detail(progress=p), p nonzero,
\* that follows a minor(length=L), L nonzero, hands p / L to the progress setter
\* and leaves it in self.progress, opening no bar; a major(message, length) makes
\* exactly one bar-open call, of that size, and a minor makes none; so
\* major("Importing", length=10), minor(length=5), detail(progress=3) opens one
\* bar of size 10 and then sets the progress to 3/5.
C2_WeightingLaw ==
    [][(~debug_mode /\ ~verbose_mode)
         => /\ (/\ lastOp.update_type = "MINOR" /\ lastOp.length # 0
                /\ lastOp'.update_type = "DETAIL" /\ TruthyNum(lastOp'.progress))
                  => /\ CountCalls(calls', "set_progress") = 1
                     /\ calls'[1].call = "set_progress"
                     /\ calls'[1].progress[1] * lastOp.length
                          = lastOp'.progress[1] * calls'[1].progress[2]
                     /\ progress' = calls'[1].progress
                     /\ CountCalls(calls', "_new_progress_bar") = 0
            /\ (/\ lastOp.update_type = "MINOR" /\ lastOp.length = 5
                /\ lastOp'.update_type = "DETAIL" /\ lastOp'.progress = Num(3))
                  => /\ calls'[1] = [call |-> "set_progress", progress |-> <<3, 5>>]
                     /\ progress' = <<3, 5>>
            /\ lastOp'.update_type = "MAJOR"
                  => /\ CountCalls(calls', "_new_progress_bar") = 1
                     /\ Len(calls') = 1
                     /\ calls'[1].length = lastOp'.length
                     /\ calls'[1].before_message = lastOp'.message
            /\ lastOp'.update_type = "MINOR"
                  => CountCalls(calls', "_new_progress_bar") = 0
      ]_vars

\* C2 witness: major(length=10), minor(length=5), detail(progress=3) has run
C2_Witness ==
    /\ ~debug_mode /\ ~verbose_mode
    /\ lastOp.via = "detail" /\ lastOp.progress = Num(3)
    /\ progress_length = 10 /\ has_subtask_length /\ subtask_length = <<5>>
    /\ progress = <<3, 5>>
    /\ calls[1] = [call |-> "set_progress", progress |-> <<3, 5>>]

\* C3: every MAJOR update leaves subtask_length absent, whatever preceded it;
\* subtask_length becomes present only by a MINOR update; and outside debug mode
\* a DETAIL update carrying a progress p that directly follows a MAJOR update
\* hands exactly p to the progress setter.
C3_MajorClearsSubtask ==
    [][/\ lastOp'.update_type = "MAJOR" => SubtaskAbsent'
       /\ (SubtaskAbsent /\ ~SubtaskAbsent') => lastOp'.update_type = "MINOR"
       /\ (/\ ~debug_mode
           /\ lastOp.update_type = "MAJOR"
           /\ lastOp'.update_type = "DETAIL" /\ TruthyNum(lastOp'.progress))
             => /\ CountCalls(calls', "set_progress") = 1
                /\ calls'[1] = [call |-> "set_progress", progress |-> lastOp'.progress]
                /\ progress' = lastOp'.progress
      ]_vars

\* C3 witness: a detail(progress=6) that followed a MAJOR update of length 5, with
\* no MINOR update in between, has set the progress to 6
C3_Witness ==
    /\ ~debug_mode /\ ~verbose_mode
    /\ lastOp.via = "detail" /\ lastOp.progress = Num(6)
    /\ has_subtask_length /\ subtask_length = None
    /\ progress_length = 5
    /\ progress = Num(6)
    /\ calls[1] = [call |-> "set_progress", progress |-> <<6, 1>>]

\* C4: with debug mode on, no call to update or to a shortcut changes a field of
\* the progress state or makes any call other than _print_message: no bar is
\* opened or closed, no progress is set, the interface is not updated.
C4_DebugModeOnlyPrints ==
    [][(debug_mode /\ lastOp'.via \in UpdateVias)
         => /\ UNCHANGED state
            /\ \A i \in 1..Len(calls') : calls'[i].call = "_print_message"
      ]_vars

\* C4 witness: in debug mode a minor update carrying progress, message and length
\* printed one line
C4_Witness ==
    /\ debug_mode
    /\ lastOp.via = "minor" /\ lastOp.progress = Num(3) /\ lastOp.message = "Importing"
    /\ lastOp.length = 5
    /\ Len(calls) = 1 /\ calls[1].call = "_print_message"

\* the text update hands to _handle_debug in the last call
DebugText ==
    OrStr(lastOp.debug_message, lastOp.message)

\* C5, as claimed: with debug mode on, every update call prints exactly one
\* timestamped line.
C5_EveryUpdatePrints ==
    (debug_mode /\ lastOp.via \in UpdateVias)
        => /\ Len(calls) = 1
           /\ calls[1].call = "_print_message"

\* C5, amended: with debug mode on, an update call prints exactly one timestamped
\* line, carrying the debug message if given, else the message, when one of the
\* two is non-empty, and prints nothing when neither is given; so
\* major("Importing") followed by detail(progress=3) prints one line.
C5_UpdatePrintsItsText ==
    [][(debug_mode /\ lastOp'.via \in UpdateVias)
         => /\ TruthyStr(DebugText')
                  => /\ Len(calls') = 1
                     /\ calls'[1].call = "_print_message"
                     /\ calls'[1].message
                          = "2022-01-01T00:00:00 -- "
                            \o (IF lastOp'.debug_message \in {NoneStr, ""}
                                THEN lastOp'.message ELSE lastOp'.debug_message)
                     /\ ~calls'[1].error /\ ~calls'[1].fatal_error
            /\ ~TruthyStr(DebugText') => calls' = <<>>
            /\ (/\ lastOp.via = "major" /\ lastOp.message = "Importing"
                /\ lastOp.debug_message = NoneStr
                /\ lastOp'.via = "detail" /\ lastOp'.progress = Num(3)
                /\ lastOp'.message = NoneStr /\ lastOp'.debug_message = NoneStr)
                  => Len(calls) + Len(calls') = 1
      ]_vars

\* C5 witness: in debug mode detail(progress=3) has run and printed nothing
C5_Witness ==
    /\ debug_mode
    /\ lastOp.via = "detail" /\ lastOp.progress = Num(3)
    /\ lastOp.message = NoneStr /\ lastOp.debug_message = NoneStr
    /\ calls = <<>>

\* the tokens the constructor documents for `log` and for `on_error`
RecognizedLogTokens ==
    {"n", "none", "e", "error", "d", "debug"}

RecognizedErrorTokens ==
    {"i", "interactive", "c", "continue", "a", "abort"}

\* C6: report_error with on_error continue returns "continue" and with on_error
\* abort returns "abort", in both cases without calling _get_error_response,
\* whatever the error, the context and the log mode.
C6_ContinueAbortNeverPrompt ==
    (lastOp.via = "report_error" /\ on_error \in {"c", "continue", "a", "abort"})
        => /\ ret.raised = NoExc
           /\ ret.value = (IF on_error \in {"c", "continue"} THEN "continue" ELSE "abort")
           /\ CountCalls(calls, "_get_error_response") = 0

\* C7: report_error with on_error interactive calls _get_error_response exactly
\* once, with the same error and context, and returns what it returned.
C7_InteractivePromptsOnce ==
    (lastOp.via = "report_error" /\ on_error \in {"i", "interactive"})
        => /\ CountCalls(calls, "_get_error_response") = 1
           /\ calls[1].call = "_get_error_response"
           /\ calls[1].error = lastOp.error
           /\ calls[1].context = lastOp.context
           /\ ret.raised = NoExc
           /\ ret.value = calls[1].returns

\* C8: outside debug mode a DETAIL update without progress completes without an
\* exception in every reachable state, leaves self.progress unchanged and calls
\* _update_interface exactly once.
C8_DetailWithoutProgress ==
    [][(~debug_mode /\ lastOp'.update_type = "DETAIL" /\ lastOp'.progress = None)
         => /\ ret'.raised = NoExc
            /\ progress' = progress
            /\ CountCalls(calls', "_update_interface") = 1
      ]_vars

\* C9: no reporter constructed with an unrecognized log or on_error token gets to
\* serve an update or report_error call, and an unrecognized on_error token is
\* never treated as interactive.
C9_UnrecognizedTokensRejected ==
    (lastOp.via \in UpdateVias \cup {"report_error"})
        => /\ init_args.log \in RecognizedLogTokens
           /\ init_args.on_error \in RecognizedErrorTokens

\* C10: with log mode debug, a failure to open or append to the log file never
\* propagates out of update.
C10_LogFailureNotRaised ==
    (lastOp.via \in UpdateVias /\ log_debug)
        => ret.raised # "OSError"

\* C11: with log mode debug, a log file and debug mode off, every update call
\* whose (debug message or message) is non-empty appends exactly one line
\* carrying that text, whatever the update type and the verbose setting (the
\* file system accepting the write); with log mode none or error an update
\* appends nothing.
C11_DebugLogEveryUpdate ==
    (lastOp.via \in UpdateVias /\ ~debug_mode)
        => /\ (/\ log_debug /\ TruthyStr(log_file) /\ TruthyStr(DebugText)
               /\ ret.raised # "OSError")
                 => /\ Len(writes) = 1
                    /\ writes[1] = "2022-01-01T00:00:00 -- " \o DebugText \o "\n"
           /\ ~log_debug => writes = <<>>

\* C12: report_error appends exactly one record per call when log mode is error
\* and a log file is set, in every error mode (the file system accepting the
\* write), and appends nothing when log mode is none or debug.
C12_ErrorLogEveryReport ==
    lastOp.via = "report_error"
        => /\ (log_error /\ TruthyStr(log_file) /\ ret.raised # "OSError")
                 => Len(writes) = 1
           /\ ~log_error => writes = <<>>

\* C13: error(message, fatal), in every configuration and state, calls
\* _close_progress_bar and then _print_message(message, error=True,
\* fatal_error=fatal), and nothing else: no field of the reporter changes,
\* nothing is written to the log, nothing is raised.
C13_ErrorClosesThenPrints ==
    [][lastOp'.via = "error"
         => /\ calls' = << [call |-> "_close_progress_bar"],
                           [call |-> "_print_message", message |-> lastOp'.message,
                            error |-> TRUE, fatal_error |-> lastOp'.fatal] >>
            /\ UNCHANGED state
            /\ UNCHANGED config
            /\ writes' = <<>>
            /\ ret' = [raised |-> NoExc, value |-> NoneStr]
      ]_vars

\* C13 witness: a fatal error has been displayed in debug mode, with error logging
\* to a file configured
C13_Witness ==
    /\ debug_mode /\ log_error /\ log_file = "transfer.log"
    /\ lastOp.via = "error" /\ lastOp.fatal
    /\ Len(calls) = 2
    /\ calls[1].call = "_close_progress_bar"
    /\ calls[2].call = "_print_message" /\ calls[2].fatal_error

\* C14: a non-verbose, non-debug MAJOR update(progress, message, length) clears
\* subtask_length, sets self.message to message and progress_length to length,
\* and makes exactly one _new_progress_bar call, of size length, with the message,
\* whose start is the update's progress when one is given.
C14_MajorOpensBarAtProgress ==
    (~debug_mode /\ ~verbose_mode /\ lastOp.update_type = "MAJOR")
        => /\ SubtaskAbsent
           /\ message = lastOp.message
           /\ progress_length = lastOp.length
           /\ Len(calls) = 1
           /\ calls[1].call = "_new_progress_bar"
           /\ calls[1].length = lastOp.length
           /\ calls[1].before_message = lastOp.message
           /\ lastOp.progress # None => calls[1].start = lastOp.progress

\* C15: in non-verbose, non-debug mode a MINOR or DETAIL update with progress 0
\* leaves self.progress as it was, without calling the progress setter, and still
\* calls _update_interface once.
C15_ZeroProgressIsNoUpdate ==
    [][(/\ ~debug_mode /\ ~verbose_mode
        /\ lastOp'.update_type \in {"MINOR", "DETAIL"}
        /\ lastOp'.progress = <<0, 1>>)
         => /\ progress' = progress
            /\ CountCalls(calls', "set_progress") = 0
            /\ CountCalls(calls', "_update_interface") = 1
            /\ calls'[Len(calls')].call = "_update_interface"
            /\ calls'[Len(calls')].progress = progress
            /\ ret'.raised = NoExc
      ]_vars

\* C15 witness: detail(progress=0) has run inside a minor task of length 5 with the
\* progress at 3, and 3 was rendered
C15_Witness ==
    /\ ~debug_mode /\ ~verbose_mode
    /\ lastOp.via = "detail" /\ lastOp.progress = <<0, 1>>
    /\ has_subtask_length /\ subtask_length = <<5>>
    /\ progress = <<3, 1>>
    /\ Len(calls) = 1
    /\ calls[1].call = "_update_interface" /\ calls[1].progress = <<3, 1>>

\* C16: in non-verbose mode a DETAIL update never changes self.message, whatever
\* message it carries, and never calls set_message; in verbose mode (debug mode
\* off) a DETAIL update with a non-empty message sets self.message to it.
C16_DetailMessageOnlyVerbose ==
    [][lastOp'.update_type = "DETAIL"
         => /\ ~verbose_mode
                  => /\ message' = message
                     /\ CountCalls(calls', "set_message") = 0
            /\ (verbose_mode /\ ~debug_mode /\ lastOp'.message \notin {NoneStr, ""})
                  => /\ message' = lastOp'.message
                     /\ CountCalls(calls', "set_message") = 1
      ]_vars

\* C16 witness: in non-verbose mode a detail carrying the message "Importing" has
\* rendered the progress while self.message is still unset
C16_Witness ==
    /\ ~debug_mode /\ ~verbose_mode
    /\ lastOp.via = "detail" /\ lastOp.message = "Importing"
    /\ message = NoneStr
    /\ Len(calls) >= 1 /\ calls[Len(calls)].call = "_update_interface"

\* the update type a shortcut stands for
ShortcutType(via) ==
    CASE via = "major"  -> "MAJOR"
      [] via = "minor"  -> "MINOR"
      [] via = "detail" -> "DETAIL"
      [] via = "debug"  -> "DEBUG"

\* C17: a call of major, minor, detail or debug has the effect of update with the
\* corresponding update type and the same arguments (the arguments the shortcut
\* does not take at their defaults): the same progress fields, renderer calls, log
\* writes and outcome, and no change to anything else.
C17_ShortcutsForwardToUpdate ==
    [][lastOp'.via \in {"major", "minor", "detail", "debug"}
         => /\ lastOp'.update_type = ShortcutType(lastOp'.via)
            /\ lastOp'.via = "major" => lastOp'.progress = None
            /\ lastOp'.via = "detail" => lastOp'.length = DefaultLength
            /\ lastOp'.via = "debug"
                  => /\ lastOp'.progress = None /\ lastOp'.message = NoneStr
                     /\ lastOp'.length = DefaultLength
            /\ \E io_ok \in IoOutcomes :
                LET out == update(St, ShortcutType(lastOp'.via), lastOp'.progress,
                                  lastOp'.message, lastOp'.length, lastOp'.debug_message,
                                  io_ok)
                IN  /\ St' = out.st
                    /\ calls' = out.calls
                    /\ writes' = out.writes
                    /\ ret' = [raised |-> out.raised, value |-> NoneStr]
            \* debug(message): the same whether update takes the text as its
            \* message or as its debug_message
            /\ lastOp'.via = "debug"
                  => \E io_ok \in IoOutcomes :
                        LET out == update(St, "DEBUG", None, lastOp'.debug_message,
                                          DefaultLength, NoneStr, io_ok)
                        IN  /\ St' = out.st
                            /\ calls' = out.calls
                            /\ writes' = out.writes
                            /\ ret' = [raised |-> out.raised, value |-> NoneStr]
            /\ UNCHANGED config
      ]_vars

\* C17 witness: in verbose mode with a debug log, minor(progress=3,
\* message="Importing", length=5) has opened a bar of length 5 and logged a line
C17_Witness ==
    /\ ~debug_mode /\ verbose_mode /\ log_debug
    /\ lastOp.via = "minor" /\ lastOp.progress = <<3, 1>> /\ lastOp.message = "Importing"
    /\ lastOp.length = 5
    /\ progress_length = 5
    /\ Len(calls) = 1 /\ calls[1].call = "_new_progress_bar" /\ calls[1].length = 5
    /\ Len(writes) = 1

\* C18: in verbose mode with debug mode off, no sequence of calls assigns
\* subtask_length; a DETAIL update with nonzero progress p hands exactly p to the
\* progress setter and leaves it in self.progress, never p divided by a MINOR
\* length; a MINOR update makes one bar-open call of size length titled by the
\* message and sets progress_length and message; a MAJOR update makes one print
\* call with its message, opens no bar and changes no field.
C18_VerboseNeverWeights ==
    [][(verbose_mode /\ ~debug_mode)
         => /\ ~has_subtask_length'
            /\ (lastOp'.update_type = "DETAIL" /\ TruthyNum(lastOp'.progress))
                  => /\ progress' = lastOp'.progress
                     /\ calls'[1] = SetProgressCall(lastOp'.progress)
                     /\ CountCalls(calls', "set_progress") = 1
                     /\ CountCalls(calls', "_new_progress_bar") = 0
            /\ lastOp'.update_type = "MINOR"
                  => /\ calls' = <<NewProgressBarCall(lastOp'.length, lastOp'.message,
                                                      None, Num(DefaultStart))>>
                     /\ progress_length' = lastOp'.length
                     /\ message' = lastOp'.message
                     /\ progress' = progress
            /\ lastOp'.update_type = "MAJOR"
                  => /\ calls' = <<PrintMessageCall(lastOp'.message, FALSE, FALSE)>>
                     /\ UNCHANGED state
      ]_vars

\* C18 witness: verbose, after a minor of length 5 a detail(progress=6) has set
\* the progress to 6, not 6/5
C18_Witness ==
    /\ verbose_mode /\ ~debug_mode
    /\ lastOp.update_type = "DETAIL" /\ lastOp.progress = <<6, 1>>
    /\ progress_length = 5 /\ message = "Importing"
    /\ progress = <<6, 1>>
    /\ ~has_subtask_length
    /\ calls[1] = SetProgressCall(<<6, 1>>)

\* C19: with debug mode on, update and its shortcuts return right after the debug
\* print: they append nothing to the log file, whatever the log setting and the
\* log file, raise nothing and change no field.
C19_DebugModeNeverLogs ==
    [][(debug_mode /\ lastOp'.via \in UpdateVias)
         => /\ writes' = <<>>
            /\ ret'.raised = NoExc
            /\ UNCHANGED state
      ]_vars

\* C19 witness: debug mode on, log level debug, a log file configured, and an
\* update with a text has printed its line and written nothing
C19_Witness ==
    /\ debug_mode /\ log_debug /\ TruthyStr(log_file)
    /\ lastOp.via = "update" /\ TruthyStr(DebugText)
    /\ Len(calls) = 1 /\ calls[1].call = "_print_message"
    /\ writes = <<>>

\* C20: a MAJOR update leaves self.progress as it was, in every mode; so when a
\* MINOR or DETAIL update without (nonzero) progress directly follows a
\* non-verbose MAJOR, its _update_interface call renders the progress of the
\* operation before the MAJOR.
C20_MajorKeepsProgress ==
    [][/\ lastOp'.update_type = "MAJOR" => progress' = progress
       /\ (/\ ~debug_mode /\ ~verbose_mode
           /\ lastOp.update_type = "MAJOR"
           /\ lastOp'.update_type \in {"MINOR", "DETAIL"}
           /\ ~TruthyNum(lastOp'.progress))
             => /\ ret'.raised \in {NoExc, "OSError"}
                /\ progress' = progress
                /\ CountCalls(calls', "_update_interface") = 1
                /\ calls'[Len(calls')].call = "_update_interface"
                /\ calls'[Len(calls')].progress = progress
      ]_vars

\* C20 witness: non-verbose; the progress 3/5 comes from a detail(progress=3)
\* under a minor of length 5, a major of length 10 has since cleared the subtask
\* length, and a detail without progress has rendered 3/5 on the bar of length 10
C20_Witness ==
    /\ ~debug_mode /\ ~verbose_mode
    /\ lastOp.update_type = "DETAIL" /\ lastOp.progress = None
    /\ has_subtask_length /\ subtask_length = None
    /\ progress_length = 10
    /\ progress = <<3, 5>>
    /\ Len(calls) = 1
    /\ calls[1].call = "_update_interface" /\ calls[1].progress = <<3, 5>>

\* C21: update never divides by zero. In non-verbose mode minor(length=0) leaves
\* subtask_length = 0, and a following detail(progress=p) raises nothing and
\* applies p unweighted, as when subtask_length is absent; and whenever a DETAIL
\* update applies a progress, it is either p itself, with no nonzero subtask
\* length in place, or p divided by a nonzero subtask length.
C21_NeverDividesByZero ==
    [][/\ ret'.raised # "ZeroDivisionError"
       /\ (/\ ~debug_mode /\ ~verbose_mode
           /\ lastOp'.update_type = "MINOR" /\ lastOp'.length = 0)
             => has_subtask_length' /\ subtask_length' = <<0>>
       /\ (/\ ~debug_mode /\ ~verbose_mode
           /\ lastOp'.update_type = "DETAIL"
           /\ has_subtask_length /\ subtask_length = <<0>>)
             => /\ ret'.raised = NoExc
                /\ TruthyNum(lastOp'.progress)
                      => /\ progress' = lastOp'.progress
                         /\ calls'[1] = SetProgressCall(lastOp'.progress)
                /\ ~TruthyNum(lastOp'.progress) => progress' = progress
       /\ (/\ ~debug_mode
           /\ lastOp'.update_type = "DETAIL" /\ TruthyNum(lastOp'.progress))
             => IF has_subtask_length /\ TruthyLen(subtask_length)
                THEN /\ subtask_length[1] # 0
                     /\ progress' = TrueDiv(lastOp'.progress, subtask_length[1])
                ELSE progress' = lastOp'.progress
      ]_vars

\* C21 witness: non-verbose, after minor(length=0) a detail(progress=6) has set
\* the progress to 6 and raised nothing
C21_Witness ==
    /\ ~debug_mode /\ ~verbose_mode
    /\ lastOp.update_type = "DETAIL" /\ lastOp.progress = <<6, 1>>
    /\ has_subtask_length /\ subtask_length = <<0>>
    /\ ret.raised = NoExc
    /\ progress = <<6, 1>>
    /\ calls[1] = SetProgressCall(<<6, 1>>)

====
